---- MODULE Spec2Model ----
(***************************************************************************)
(* gh-backup (src/src/main.rs): the paginated repository lister, the       *)
(* identity resolver, and main's spawn-all / buffer_unordered(10) clone-   *)
(* or-fetch orchestration, as a state machine.                             *)
(***************************************************************************)
EXTENDS Naturals, Sequences, FiniteSets

\* ------------------------------------------------------------- constants
\* const MAX_PAGE: usize = 1000; the loop is `for page in 1..MAX_PAGE`.
MAX_PAGE == 1000

\* stream::iter(handles).buffer_unordered(10)
PoolWidth == 10

\* ---------------------------------------------------------------- bounds
\* Repository names are 1..MaxNames; a listing holds at most MaxRepos records.
MaxNames == 2

MaxRepos == 2

\* Worker threads of the tokio multi_thread runtime (one per CPU core).
MaxWorkers == 2

\* Runs of the program against one backup directory.
MaxRuns == 2

\* The lister on its own: listings of at most MaxListed records.
MaxListed == 3

\* The most remotes registered on one existing repository.
MaxRemotes == 2

Names == 1..MaxNames

\* HTTP status codes the server is made to answer with: the edges of every
\* class the code tests (is_success 200..299, is_server_error 500..599, 403, 404).
Statuses == {200, 300, 400, 403, 404, 499, 500, 599}

VARIABLES
    pc,           \* main's position
    gh_token,     \* "unread" | "set" | "missing"
    exitCode,     \* "none" | "SUCCESS" | "FAILURE"
    api,          \* the organisation as the API serves it (environment)
    userRequests, \* GET /user requests issued in this run
    userStatus,   \* status of the identity response (0: none / transport error)
    userResult,   \* "none" | "Ok" | "Forbidden" | "ServerError" | "UnknownError"
    page,         \* fetch_repos: the loop variable (next page to request)
    requests,     \* fetch_repos: page requests issued in this run
    lastStatus,   \* status of the latest page response (0: none / transport error)
    acc,          \* fetch_repos: the local vector `repos`
    listResult,   \* "none" | "Ok" | an error of FetchReposError
    repos,        \* main: the vector fetch_repos returned
    dirCreated,   \* fs::create_dir_all(&backup_dir) succeeded in this run
    fs,           \* names whose target path backup_dir/name exists (complete)
    failing,      \* names whose git transfer fails in this run (environment)
    nworkers,     \* worker threads of the runtime (environment)
    unit,         \* per listed record: the state of its spawned task
    sawExists,    \* per unit: what repo_dir.exists() answered
    invoked,      \* per unit: the git operations it invoked
    run,          \* number of the current run against this backup_dir
    fs0,          \* fs when the current run started
    prev,         \* per earlier run, oldest first: its fs0 and the names it cloned
    codes,        \* the HTTP status codes the server answers with (environment)
    dry,          \* the --dry / -d switch of the command line
    remotes,      \* per existing target that has not just "origin": its number of remotes
    bad,          \* <<name, remote>> pairs whose download fails (environment)
    userBody,     \* what became of the identity response's body
    answers,      \* fetch_repos: per request, the page asked and what came back
    spawned,      \* the records given a task, in the order of the spawn calls
    attempted     \* per unit: the remotes whose download it called, in order

vars == <<pc, gh_token, exitCode, api, userRequests, userStatus, userResult, page,
          requests, lastStatus, acc, listResult, repos, dirCreated, fs, failing,
          nworkers, unit, sawExists, invoked, run, fs0, prev, codes, dry, remotes,
          bad, userBody, answers, spawned, attempted>>

\* What the run is started with and never writes.
env == <<codes, dry, remotes, bad>>

\* ------------------------------------------------------------ HTTP model
IsSuccess(code) == code >= 200 /\ code <= 299

\* The 5xx test with its lower edge off by one.
IsServerErrorAbove500(code) == code > 500 /\ code <= 599

IsServerError(code) == code >= 500 /\ code <= 599

\* A reply is a transport error, or a response with a status and a body that
\* parses (into `items`) or does not.
TransportError == [kind |-> "transport_error", status |-> 0, parse_ok |-> FALSE, items |-> <<>>]

Response(s, ok, items) == [kind |-> "response", status |-> s, parse_ok |-> ok, items |-> items]

\* The status tests without the one for FORBIDDEN.
UserClassifyNo403(reply) ==
    IF reply.kind = "transport_error" THEN "UnknownError"
    ELSE IF IsServerError(reply.status) THEN "ServerError"
    ELSE IF ~IsSuccess(reply.status) THEN "UnknownError"
    ELSE IF ~reply.parse_ok THEN "UnknownError"
    ELSE "Ok"

\* fetch_user: the outcome of one request.
UserClassify(reply) ==
    IF reply.kind = "transport_error" THEN "UnknownError"
    ELSE IF reply.status = 403 THEN "Forbidden"
    ELSE IF IsServerError(reply.status) THEN "ServerError"
    ELSE IF ~IsSuccess(reply.status) THEN "UnknownError"
    ELSE IF ~reply.parse_ok THEN "UnknownError"
    ELSE "Ok"

\* The status tests without the one for NOT_FOUND.
ReposClassifyNo404(reply) ==
    IF reply.kind = "transport_error" THEN "UnknownError"
    ELSE IF reply.status = 403 THEN "Forbidden"
    ELSE IF IsServerError(reply.status) THEN "ServerError"
    ELSE IF ~IsSuccess(reply.status) THEN "UnknownError"
    ELSE IF ~reply.parse_ok THEN "UnknownError"
    ELSE "Ok"

\* fetch_repos: the outcome of one page request.
ReposClassify(reply) ==
    IF reply.kind = "transport_error" THEN "UnknownError"
    ELSE IF reply.status = 404 THEN "OrganisationNotFound"
    ELSE IF reply.status = 403 THEN "Forbidden"
    ELSE IF IsServerError(reply.status) THEN "ServerError"
    ELSE IF ~IsSuccess(reply.status) THEN "UnknownError"
    ELSE IF ~reply.parse_ok THEN "UnknownError"
    ELSE "Ok"

\* The page the organisation holds at number p: its scripted pages, then either
\* empty pages for ever or (a misbehaving API) a non-empty page for ever.
PageItems(p) ==
    IF p <= Len(api.pages) THEN api.pages[p]
    ELSE IF api.after = "empty" THEN <<>>
    ELSE <<1>>

\* What the server may answer to GET /orgs/{org}/repos?page=p.
ListReplies(p) ==
    {TransportError}
        \cup {Response(s, FALSE, <<>>) : s \in codes}
        \cup {Response(s, TRUE, PageItems(p)) : s \in {c \in codes : IsSuccess(c)}}

\* What becomes of a reply's body: none arrives, the status tests return before
\* it is read, or .json() parses it or fails to.
BodyFate(reply) ==
    IF reply.kind = "transport_error" THEN "transport_error"
    ELSE IF ~IsSuccess(reply.status) THEN "unread"
    ELSE IF reply.parse_ok THEN "parsed"
    ELSE "unparseable"

\* What the server may answer to GET /user.
UserReplies ==
    {TransportError}
        \cup {Response(s, FALSE, <<>>) : s \in codes}
        \cup {Response(s, TRUE, <<>>) : s \in {c \in codes : IsSuccess(c)}}

\* ------------------------------------------------------------- helpers
RECURSIVE FlattenRange(_, _, _)
\* The concatenation of pages lo..hi of pp, in page order.
FlattenRange(pp, lo, hi) ==
    IF lo > hi THEN <<>>
    ELSE IF lo = hi THEN pp[lo]
    ELSE LET mid == (lo + hi) \div 2
         IN FlattenRange(pp, lo, mid) \o FlattenRange(pp, mid + 1, hi)

\* The concatenation of a sequence of pages, in page order.
Flatten(pp) == FlattenRange(pp, 1, Len(pp))

Units == DOMAIN unit

Terminal == {"Succeeded", "Failed", "Panicked"}

Transferring == {i \in Units : unit[i] \in {"Cloning", "Fetching"}}

\* Every unit working in one path, whatever its record's name.
TargetPathShared(i) == 1

\* repo_dir = backup_dir.join(repo.name): the target path is named by the record.
TargetPath(i) == repos[i]

\* -------------------------------------------------------- main: start-up
\* std::env::var("GH_TOKEN").or(std::env::var("GITHUB_TOKEN")) else return FAILURE
AfterTokenAlways(present) == "fetch_user"

AfterToken(present) == IF present THEN "fetch_user" ELSE "done"

Exit(next) == IF next = "done" THEN "FAILURE" ELSE "none"

ReadToken ==
    /\ pc = "start"
    /\ \E present \in BOOLEAN :
        /\ gh_token' = (IF present THEN "set" ELSE "missing")
        /\ pc' = AfterToken(present)
        /\ exitCode' = Exit(AfterToken(present))
    /\ UNCHANGED <<api, userRequests, userStatus, userResult, page, requests,
                   lastStatus, acc, listResult, repos, dirCreated, fs, failing,
                   nworkers, unit, sawExists, invoked, run, fs0, prev, env,
                   userBody, answers, spawned, attempted>>

\* match fetch_user(&gh_token).await { Ok(user) => user, Err(e) => return FAILURE }
AfterUserAlways(result) == "fetch_repos"

AfterUser(result) == IF result = "Ok" THEN "fetch_repos" ELSE "done"

FetchUser ==
    /\ pc = "fetch_user"
    /\ \E reply \in UserReplies :
        /\ userRequests' = userRequests + 1
        /\ userStatus' = reply.status
        /\ userBody' = BodyFate(reply)
        /\ userResult' = UserClassify(reply)
        /\ pc' = AfterUser(UserClassify(reply))
        /\ exitCode' = Exit(AfterUser(UserClassify(reply)))
    /\ UNCHANGED <<gh_token, api, page, requests, lastStatus, acc, listResult,
                   repos, dirCreated, fs, failing, nworkers, unit, sawExists,
                   invoked, run, fs0, prev, env,
                   answers, spawned, attempted>>

\* ------------------------------------------------------------ fetch_repos
\* `for page in 1..MAX_PAGE`: the range excludes MAX_PAGE.
ExhaustedInclusive(p) == p > MAX_PAGE

\* The range ending one page sooner.
ExhaustedOneEarly(p) == p >= MAX_PAGE - 1

Exhausted(p) == p >= MAX_PAGE

\* The range's next value.
NextPageSkips(p) == p + 2

NextPage(p) == p + 1

\* repos.append(&mut response_repos)
AppendFront(v, items) == items \o v

AppendPage(v, items) == v \o items

\* Ok(repos) reaches main: one task state per record, none spawned yet.
ReturnRepos(v) ==
    /\ listResult' = "Ok"
    /\ repos' = v
    /\ unit' = [i \in 1..Len(v) |-> "Pending"]
    /\ sawExists' = [i \in 1..Len(v) |-> "unchecked"]
    /\ invoked' = [i \in 1..Len(v) |-> {}]
    /\ attempted' = [i \in 1..Len(v) |-> <<>>]
    /\ pc' = "mkdir"
    /\ exitCode' = "none"

\* One iteration of `for page in 1..MAX_PAGE`: the request, the status tests, the
\* parse, and the break or the append; after the append of the range's last page
\* the loop ends and Ok(repos) is returned.
FetchReposPage ==
    /\ pc = "fetch_repos"
    /\ ~Exhausted(page)
    /\ \E reply \in ListReplies(page) :
        /\ requests' = requests + 1
        /\ lastStatus' = reply.status
        /\ answers' = Append(answers, [page |-> page, status |-> reply.status,
                                       body |-> BodyFate(reply), count |-> Len(reply.items)])
        /\ IF ReposClassify(reply) # "Ok"
           THEN /\ listResult' = ReposClassify(reply)
                /\ acc' = <<>>
                /\ pc' = "done"
                /\ exitCode' = "FAILURE"
                /\ UNCHANGED <<page, repos, unit, sawExists, invoked, attempted>>
           ELSE IF reply.items = <<>>
           THEN /\ ReturnRepos(acc)
                /\ UNCHANGED <<page, acc>>
           ELSE /\ acc' = AppendPage(acc, reply.items)
                /\ page' = NextPage(page)
                /\ IF Exhausted(NextPage(page))
                   THEN ReturnRepos(AppendPage(acc, reply.items))
                   ELSE UNCHANGED <<pc, exitCode, listResult, repos, unit, sawExists,
                                    invoked, attempted>>
    /\ UNCHANGED <<gh_token, api, userRequests, userStatus, userResult, dirCreated,
                   fs, failing, nworkers, run, fs0, prev, env,
                   userBody, spawned>>

\* -------------------------------------------------------- main: the backup
\* if let Err(e) = fs::create_dir_all(&backup_dir) { return FAILURE }
CreateDir ==
    /\ pc = "mkdir"
    /\ \E ok \in BOOLEAN :
        /\ dirCreated' = ok
        /\ pc' = (IF ok THEN "spawn" ELSE "done")
        /\ exitCode' = (IF ok THEN "none" ELSE "FAILURE")
    /\ UNCHANGED <<gh_token, api, userRequests, userStatus, userResult, page,
                   requests, lastStatus, acc, listResult, repos, fs, failing,
                   nworkers, unit, sawExists, invoked, run, fs0, prev, env,
                   userBody, answers, spawned, attempted>>

Pending == {i \in Units : unit[i] = "Pending"}

\* into_iter() yields the records front to back.
NextRecordFromBack(S) == CHOOSE j \in S : \A k \in S : j >= k

NextRecord(S) == CHOOSE j \in S : \A k \in S : j <= k

\* repos.into_iter().map(|repo| tokio::task::spawn(..)): the next record, in
\* listing order, gets its task; the task is runnable from then on.
Spawn ==
    /\ pc = "spawn"
    /\ Pending # {}
    /\ unit' = [unit EXCEPT ![NextRecord(Pending)] = "Dispatched"]
    /\ spawned' = Append(spawned, NextRecord(Pending))
    /\ UNCHANGED <<pc, gh_token, exitCode, api, userRequests, userStatus, userResult,
                   page, requests, lastStatus, acc, listResult, repos, dirCreated,
                   fs, failing, nworkers, sawExists, invoked, run, fs0, prev, env,
                   userBody, answers, attempted>>

\* .collect(): every record has its handle; main goes on to await them.
Collect ==
    /\ pc = "spawn"
    /\ Pending = {}
    /\ pc' = "join"
    /\ UNCHANGED <<gh_token, exitCode, api, userRequests, userStatus, userResult,
                   page, requests, lastStatus, acc, listResult, repos, dirCreated,
                   fs, failing, nworkers, unit, sawExists, invoked, run, fs0, prev, env,
                   userBody, answers, spawned, attempted>>

\* repo_dir.exists(): true for a complete target; while a sibling task is cloning
\* into the same path the directory may or may not be there yet.
ExistsOutcomes(i) ==
    IF TargetPath(i) \in fs THEN {TRUE}
    ELSE IF \E j \in Units \ {i} : unit[j] = "Cloning" /\ TargetPath(j) = TargetPath(i)
         THEN {TRUE, FALSE}
         ELSE {FALSE}

\* if repo_dir.exists() { open + download } else { clone }
BranchAlwaysClone(exists) == "clone"

Branch(exists) == IF exists THEN "fetch" ELSE "clone"

\* A spawned task is taken by a free worker thread and runs, without an await
\* point, up to its blocking git call.
StartUnit(i) ==
    /\ unit[i] = "Dispatched"
    /\ Cardinality(Transferring) < nworkers
    /\ \E e \in ExistsOutcomes(i) :
        /\ sawExists' = [sawExists EXCEPT ![i] = IF e THEN "exists" ELSE "absent"]
        /\ invoked' = [invoked EXCEPT ![i] = @ \cup {Branch(e)}]
        /\ unit' = [unit EXCEPT ![i] = IF Branch(e) = "fetch" THEN "Fetching" ELSE "Cloning"]
    /\ UNCHANGED <<pc, gh_token, exitCode, api, userRequests, userStatus, userResult,
                   page, requests, lastStatus, acc, listResult, repos, dirCreated,
                   fs, failing, nworkers, run, fs0, prev, env,
                   userBody, answers, spawned, attempted>>

\* RepoBuilder::clone succeeds when the transfer does and nothing took the path.
CloneOk(i) == repos[i] \notin failing /\ TargetPath(i) \notin fs

\* A successful clone leaves the repository at its target path.
AfterCloneForget(disk, i) == disk

AfterClone(disk, i) == disk \cup {TargetPath(i)}

\* match clone(..) { Ok(_) => SUCCESS, Err(e) => { eprintln!; FAILURE } }: the
\* value is dropped and the task ends normally either way.
FinishClone(i) ==
    /\ unit[i] = "Cloning"
    /\ IF CloneOk(i)
       THEN /\ unit' = [unit EXCEPT ![i] = "Succeeded"]
            /\ fs' = AfterClone(fs, i)
       ELSE /\ unit' = [unit EXCEPT ![i] = "Failed"]
            /\ fs' = fs
    /\ UNCHANGED <<pc, gh_token, exitCode, api, userRequests, userStatus, userResult,
                   page, requests, lastStatus, acc, listResult, repos, dirCreated,
                   failing, nworkers, sawExists, invoked, run, fs0, prev, env,
                   userBody, answers, spawned, attempted>>

\* Repository::open(..).unwrap(), remotes().unwrap(), download(..).unwrap()
\* The remotes registered on unit i's existing repository: "origin" alone (what a
\* clone leaves) unless the environment says otherwise.
RemoteCount(i) == IF repos[i] \in DOMAIN remotes THEN remotes[repos[i]] ELSE 1

\* find_remote(name).unwrap().download(..) of remote r fails.
DownloadFails(i, r) == repos[i] \in failing \/ <<repos[i], r>> \in bad

RECURSIVE DownloadLoop(_, _)
\* for remote_name in repo.remotes().unwrap().iter() { ..download(..).unwrap() }
\* from remote r on: the remotes whose download is called; the first failure
\* panics and ends the loop.
DownloadLoop(i, r) ==
    IF r > RemoteCount(i) THEN <<>>
    ELSE IF DownloadFails(i, r) THEN <<r>>
    ELSE <<r>> \o DownloadLoop(i, r + 1)

\* The downloads the fetch arm calls: none when Repository::open fails.
Downloads(i) == IF TargetPath(i) \in fs THEN DownloadLoop(i, 1) ELSE <<>>

FetchOk(i) ==
    /\ TargetPath(i) \in fs
    /\ \A r \in 1..RemoteCount(i) : ~DownloadFails(i, r)

\* What a panicking task does to the task states: tokio catches the unwind, the
\* task's JoinHandle resolves to Err(JoinError), no other task is touched.
PanicAbortsAll(u, i) == [j \in DOMAIN u |-> IF u[j] \in Terminal THEN u[j] ELSE "Panicked"]

\* A panicking task put back in the queue.
PanicRetries(u, i) == [u EXCEPT ![i] = "Dispatched"]

Panic(u, i) == [u EXCEPT ![i] = "Panicked"]

FinishFetch(i) ==
    /\ unit[i] = "Fetching"
    /\ attempted' = [attempted EXCEPT ![i] = Downloads(i)]
    /\ IF FetchOk(i)
       THEN unit' = [unit EXCEPT ![i] = "Succeeded"]
       ELSE unit' = Panic(unit, i)
    /\ UNCHANGED <<pc, gh_token, exitCode, api, userRequests, userStatus, userResult,
                   page, requests, lastStatus, acc, listResult, repos, dirCreated,
                   fs, failing, nworkers, sawExists, invoked, run, fs0, prev, env,
                   userBody, answers, spawned>>

RECURSIVE FirstN(_, _)
\* The n smallest members of a set of numbers.
FirstN(S, n) ==
    IF n = 0 \/ S = {} THEN {}
    ELSE LET m == CHOOSE x \in S : \A y \in S : x <= y
         IN {m} \cup FirstN(S \ {m}, n - 1)

\* A stream that awaits no handle.
BufferWindowNone == {}

\* buffer_unordered(10): the handles being awaited are the first 10, in listing
\* order, whose task has not finished. It gates the awaiting, not the tasks.
BufferWindow == FirstN({i \in Units : unit[i] \notin Terminal}, PoolWidth)

\* The process exit status after the stream is collected.
JoinExit(u) == "SUCCESS"

\* .collect::<Vec<_>>().await ends when every handle has resolved; the results
\* are dropped and main returns ExitCode::SUCCESS.
Join ==
    /\ pc = "join"
    /\ BufferWindow = {}
    /\ pc' = "done"
    /\ exitCode' = JoinExit(unit)
    /\ UNCHANGED <<gh_token, api, userRequests, userStatus, userResult, page,
                   requests, lastStatus, acc, listResult, repos, dirCreated, fs,
                   failing, nworkers, unit, sawExists, invoked, run, fs0, prev, env,
                   userBody, answers, spawned, attempted>>

\* ---------------------------------------------------------------- a run
RunInit ==
    /\ pc = "start"
    /\ gh_token = "unread"
    /\ exitCode = "none"
    /\ userRequests = 0
    /\ userStatus = 0
    /\ userResult = "none"
    /\ page = 1
    /\ requests = 0
    /\ lastStatus = 0
    /\ acc = <<>>
    /\ listResult = "none"
    /\ repos = <<>>
    /\ dirCreated = FALSE
    /\ unit = <<>>
    /\ sawExists = <<>>
    /\ invoked = <<>>
    /\ userBody = "none"
    /\ answers = <<>>
    /\ spawned = <<>>
    /\ attempted = <<>>

\* The server answers with the sampled codes, the switch is off and every
\* existing target has the one remote.
PlainEnv ==
    /\ codes = Statuses
    /\ dry = FALSE
    /\ remotes = <<>>
    /\ bad = {}

RECURSIVE Listings(_, _)
\* The listings of at most n records over S, cut into non-empty pages in every way.
Listings(S, n) ==
    {<<>>} \cup UNION {{<<pg>> \o rest : pg \in [1..k -> S], rest \in Listings(S, n - k)} :
                        k \in 1..n}

\* An organisation that serves its listing and then empty pages.
SmallApis == {[pages |-> pp, after |-> "empty"] : pp \in Listings(Names, MaxRepos)}

Init ==
    /\ RunInit
    /\ PlainEnv
    /\ api \in SmallApis
    /\ fs \in SUBSET Names
    /\ fs0 = fs
    /\ failing \in SUBSET Names
    /\ nworkers \in 1..MaxWorkers
    /\ run = 1
    /\ prev = <<>>

Next ==
    \/ ReadToken
    \/ FetchUser
    \/ FetchReposPage
    \/ CreateDir
    \/ Spawn
    \/ Collect
    \/ \E i \in Units : StartUnit(i)
    \/ \E i \in Units : FinishClone(i)
    \/ \E i \in Units : FinishFetch(i)
    \/ Join

Spec == Init /\ [][Next]_vars

\* ------------------------------------------------- the lister on its own
\* K one-record pages.
LongListing(K) == [p \in 1..K |-> <<1>>]

\* Small listings, and listings that end just below, at and above the page
\* ceiling, each followed by empty pages or by non-empty pages for ever.
ListerApis ==
    {[pages |-> pp, after |-> "empty"] : pp \in Listings(1..MaxListed, MaxListed)}
        \cup {[pages |-> pp, after |-> a] :
                pp \in {<<>>} \cup {LongListing(K) : K \in (MAX_PAGE - 2)..MAX_PAGE},
                a \in {"empty", "endless"}}

\* main has its token and its user and calls fetch_repos.
ListerStart ==
    /\ pc = "fetch_repos"
    /\ gh_token = "set"
    /\ exitCode = "none"
    /\ userRequests = 1
    /\ userStatus = 200
    /\ userResult = "Ok"
    /\ page = 1
    /\ requests = 0
    /\ lastStatus = 0
    /\ acc = <<>>
    /\ listResult = "none"
    /\ repos = <<>>
    /\ dirCreated = FALSE
    /\ unit = <<>>
    /\ sawExists = <<>>
    /\ invoked = <<>>
    /\ userBody = "parsed"
    /\ answers = <<>>
    /\ spawned = <<>>
    /\ attempted = <<>>
    /\ fs = {}
    /\ fs0 = {}
    /\ failing = {}
    /\ nworkers = 1
    /\ run = 1
    /\ prev = <<>>

InitLister ==
    /\ ListerStart
    /\ PlainEnv
    /\ api \in ListerApis

NextLister == FetchReposPage

\* The request either is answered or fails: every iteration ends.
SpecLister == InitLister /\ [][NextLister]_vars /\ WF_vars(NextLister)

\* ------------------------------------ existing targets with several remotes
\* Name 1's repository is in the backup directory from an earlier run, with any
\* number of remotes, each of which may fail to download; name 2's may be there
\* with its one remote; nothing else fails.
InitRemotes ==
    /\ RunInit
    /\ codes = Statuses
    /\ dry = FALSE
    /\ remotes \in [{1} -> 0..MaxRemotes]
    /\ bad \in SUBSET ({1} \X (1..MaxRemotes))
    /\ api \in SmallApis
    /\ fs \in {{1}, Names}
    /\ fs0 = fs
    /\ failing = {}
    /\ nworkers = 1
    /\ run = 1
    /\ prev = <<>>

SpecRemotes == InitRemotes /\ [][Next]_vars

\* ------------------------------------------------------ the --dry switch
\* GhBackup::parse() with or without -d/--dry; no git operation fails.
InitDry ==
    /\ RunInit
    /\ codes = Statuses
    /\ dry \in BOOLEAN
    /\ remotes = <<>>
    /\ bad = {}
    /\ api \in SmallApis
    /\ fs \in SUBSET Names
    /\ fs0 = fs
    /\ failing = {}
    /\ nworkers = 1
    /\ run = 1
    /\ prev = <<>>

SpecDry == InitDry /\ [][Next]_vars

\* ------------------------------------------- a listing that does not end
\* An organisation whose API serves a non-empty page for every page number, or
\* for MAX_PAGE page numbers and then empty pages; main is about to list it.
InitCeiling ==
    /\ ListerStart
    /\ PlainEnv
    /\ api \in {[pages |-> <<>>, after |-> "endless"],
                [pages |-> LongListing(MAX_PAGE), after |-> "empty"]}

\* main from the listing to the point where every record has its task; the tasks,
\* one per record, are spawned and have not been given a worker thread yet.
NextCeiling == FetchReposPage \/ CreateDir \/ Spawn \/ Collect

SpecCeiling == InitCeiling /\ [][NextCeiling]_vars

\* ------------------------------------------- every status the server has
\* The status codes of HTTP's five classes.
AllStatuses == 100..599

\* A run against an organisation without repositories, and a listing of one
\* one-record page entered with the user resolved; the server may answer every
\* request with any status.
InitClassify ==
    /\ codes = AllStatuses
    /\ dry = FALSE
    /\ remotes = <<>>
    /\ bad = {}
    /\ \/ /\ RunInit
          /\ api = [pages |-> <<>>, after |-> "empty"]
          /\ fs = {}
          /\ fs0 = {}
          /\ failing = {}
          /\ nworkers = 1
          /\ run = 1
          /\ prev = <<>>
       \/ /\ ListerStart
          /\ api = [pages |-> << <<1>> >>, after |-> "empty"]

NextClassify == ReadToken \/ FetchUser \/ FetchReposPage

SpecClassify == InitClassify /\ [][NextClassify]_vars

\* ------------------------------------ more records than the pool is wide
\* One page of PoolWidth + 1 records with distinct names, on a machine with as
\* many cores; the first target is there from an earlier backup.
InitPool ==
    /\ RunInit
    /\ PlainEnv
    /\ api = [pages |-> << [i \in 1..(PoolWidth + 1) |-> i] >>, after |-> "empty"]
    /\ fs = {1}
    /\ fs0 = fs
    /\ failing = {}
    /\ nworkers = PoolWidth + 1
    /\ run = 1
    /\ prev = <<>>

SpecPool == InitPool /\ [][Next]_vars

\* --------------------------------------------------- the run comes to an end
\* An organisation with no repository or with PoolWidth + 1 of them on one page;
\* the first target is there from an earlier backup and its fetch fails, the
\* second repository's clone fails; one worker thread.
InitLive ==
    /\ RunInit
    /\ PlainEnv
    /\ api \in {[pages |-> <<>>, after |-> "empty"],
                [pages |-> << [i \in 1..(PoolWidth + 1) |-> i] >>, after |-> "empty"]}
    /\ fs = {1}
    /\ fs0 = fs
    /\ failing = {1, 2}
    /\ nworkers = 1
    /\ run = 1
    /\ prev = <<>>

\* The program does not stand still while a step is open to it: main goes on when
\* it can, the runtime gives a runnable task to a free worker thread, and a clone
\* or fetch call that has been made returns.
SpecLive == InitLive /\ [][Next]_vars /\ WF_vars(Next)


\* ------------------------------------------- the program run once more
\* The names the ending run cloned with success.
ClonedOk == {repos[i] : i \in {j \in Units : invoked[j] = {"clone"} /\ unit[j] = "Succeeded"}}

\* The program is started again on the same backup directory and organisation
\* after a run that went through its backup phase; what that run did is kept.
Rerun ==
    /\ pc = "done"
    /\ exitCode = "SUCCESS"
    /\ run < MaxRuns
    /\ prev' = Append(prev, [fs0 |-> fs0, cloned |-> ClonedOk])
    /\ run' = run + 1
    /\ fs0' = fs
    /\ failing' \in SUBSET Names
    /\ pc' = "start"
    /\ gh_token' = "unread"
    /\ exitCode' = "none"
    /\ userRequests' = 0
    /\ userStatus' = 0
    /\ userResult' = "none"
    /\ page' = 1
    /\ requests' = 0
    /\ lastStatus' = 0
    /\ acc' = <<>>
    /\ listResult' = "none"
    /\ repos' = <<>>
    /\ dirCreated' = FALSE
    /\ unit' = <<>>
    /\ sawExists' = <<>>
    /\ invoked' = <<>>
    /\ userBody' = "none"
    /\ answers' = <<>>
    /\ spawned' = <<>>
    /\ attempted' = <<>>
    /\ UNCHANGED <<api, fs, nworkers, env>>

NextTwice == Next \/ Rerun

\* The first run starts on an empty backup directory.
InitTwice ==
    /\ RunInit
    /\ PlainEnv
    /\ api \in SmallApis
    /\ fs = {}
    /\ fs0 = fs
    /\ failing \in SUBSET Names
    /\ nworkers \in 1..MaxWorkers
    /\ run = 1
    /\ prev = <<>>

SpecTwice == InitTwice /\ [][NextTwice]_vars


\* =================================================================== claims
\* C1: in every reachable state of a backup run, for any number of listed
\* repositories, at most the pool width of 10 units are in their transfer step
\* (cloning or fetching); units beyond the 10th wait for a running unit to finish.
C1_AtMostPoolWidthTransferring == Cardinality(Transferring) <= PoolWidth

\* C2: the exit status is 0 only if identity resolution, listing, directory
\* creation and every backup unit succeeded; a unit that ends in failure makes it
\* non-zero.
C2_ExitZeroOnlyIfAllSucceeded ==
    exitCode = "SUCCESS" =>
        /\ userResult = "Ok"
        /\ listResult = "Ok"
        /\ dirCreated
        /\ \A i \in Units : unit[i] = "Succeeded"

\* A unit whose own transfer is not made to fail: its record's name is listed once
\* and the environment lets that transfer through.
Independent(i) ==
    /\ repos[i] \notin failing
    /\ \A j \in Units \ {i} : repos[j] # repos[i]

\* C3: a failing unit never aborts, cancels or fails a sibling: whatever units
\* fail, a unit whose own transfer does not fail is never failed, and when main
\* has collected the handles every unit has run to its end and each such unit is
\* Succeeded.
C3_FailureIsolation ==
    \A i \in Units :
        /\ Independent(i) => unit[i] \notin {"Failed", "Panicked"}
        /\ (pc = "done" /\ dirCreated) =>
            /\ unit[i] \in Terminal
            /\ Independent(i) => unit[i] = "Succeeded"

\* C3's case: two records, one unit failed, its sibling Succeeded, main returned.
C3_Witness ==
    /\ pc = "done"
    /\ Len(repos) >= 2
    /\ \E k \in Units :
        /\ unit[k] \in {"Failed", "Panicked"}
        /\ \A i \in Units \ {k} : unit[i] = "Succeeded"

\* C4 as stated: for P non-empty pages followed by an empty page, all answered
\* 2xx, the lister issues exactly P+1 requests and returns the concatenation of
\* the P pages in order, for every P.
C4_Original ==
    (listResult = "Ok" /\ api.after = "empty") =>
        /\ requests = Len(api.pages) + 1
        /\ repos = Flatten(api.pages)

\* C4 amended: the same for P non-empty pages with P + 1 within the 999 requests
\* the loop can make (P <= 998).
C4_ListingIsConcatenation ==
    (listResult = "Ok" /\ api.after = "empty" /\ Len(api.pages) + 1 <= 999) =>
        /\ requests = Len(api.pages) + 1
        /\ page = Len(api.pages) + 1
        /\ repos = Flatten(api.pages)

\* C4's scenario: pages {1,2}, {3}, {} yield [1,2,3] in three requests.
C4_Witness ==
    /\ api.pages = << <<1, 2>>, <<3>> >>
    /\ listResult = "Ok"
    /\ requests = 3
    /\ repos = <<1, 2, 3>>

\* C5: one listing never issues more than 999 requests, also when every page is
\* non-empty, and the listing loop always terminates.
C5_PageCeiling == [](requests <= 999) /\ <>(pc # "fetch_repos")

\* C5's case: the API never serves an empty page and the lister has stopped.
C5_Witness == api.after = "endless" /\ requests = 999 /\ pc # "fetch_repos"

\* C6: a page request answered 404, the first or a later one, makes the lister
\* return OrganisationNotFound at once: no records reach main and no further
\* request is issued.
C6_NotFoundStopsListing ==
    /\ [](lastStatus = 404 =>
            /\ listResult = "OrganisationNotFound"
            /\ pc = "done"
            /\ exitCode = "FAILURE"
            /\ repos = <<>>
            /\ unit = <<>>)
    /\ [][lastStatus = 404 => requests' = requests]_vars

\* C6's case: the second page is answered 404.
C6_Witness == lastStatus = 404 /\ requests = 2

\* C7: nothing of the backup (directory creation, task spawn, clone, fetch)
\* happens unless fetch_user and then fetch_repos returned Ok, no page is
\* requested before fetch_user returned Ok, and an identity answer of 403 ends
\* the run with Forbidden, a non-zero status, no listing request and no backup.
C7_IdentityAndListingFirst ==
    /\ (dirCreated \/ pc \in {"spawn", "join"} \/ \E i \in Units : unit[i] # "Pending")
            => (userResult = "Ok" /\ listResult = "Ok")
    /\ (requests > 0 \/ pc \in {"fetch_repos", "mkdir"}) => userResult = "Ok"
    /\ pc = "mkdir" => listResult = "Ok"
    /\ userStatus = 403 =>
            /\ userResult = "Forbidden"
            /\ pc = "done"
            /\ exitCode = "FAILURE"
            /\ requests = 0
            /\ ~dirCreated
            /\ unit = <<>>

\* C7's case: the identity call was answered 403.
C7_Witness == userRequests = 1 /\ userStatus = 403

\* C8: a unit invokes clone exactly if its target path did not exist when it
\* checked; if the path exists it fetches and never clones; no unit does both.
C8_CloneOrFetch ==
    \A i \in Units :
        /\ "clone" \in invoked[i] <=> sawExists[i] = "absent"
        /\ "fetch" \in invoked[i] <=> sawExists[i] = "exists"
        /\ Cardinality(invoked[i]) <= 1
        /\ TargetPath(i) \in fs0 => "clone" \notin invoked[i]
        /\ unit[i] = "Cloning" => invoked[i] = {"clone"}
        /\ unit[i] = "Fetching" => invoked[i] = {"fetch"}
        /\ unit[i] \in {"Pending", "Dispatched"} => invoked[i] = {}

\* C8's case: one unit found its target and fetched, another found none and cloned.
C8_Witness ==
    \E i, j \in Units :
        /\ TargetPath(i) \in fs0 /\ invoked[i] = {"fetch"} /\ unit[i] = "Succeeded"
        /\ TargetPath(j) \notin fs0 /\ invoked[j] = {"clone"} /\ unit[j] = "Succeeded"

\* The listing names no repository twice.
UniqueNames == \A i, j \in Units : repos[i] = repos[j] => i = j

ClonedBefore(i) == \E r \in DOMAIN prev : repos[i] \in prev[r].cloned

C10_NoTokenNoWork ==
    gh_token = "missing" =>
        /\ pc = "done"
        /\ exitCode = "FAILURE"
        /\ userRequests = 0
        /\ requests = 0
        /\ ~dirCreated
        /\ unit = <<>>

\* C10's case: the token was looked up and is not set.
C10_Witness == gh_token = "missing" /\ exitCode = "FAILURE"

\* The latest answer of the listing.
LastAnswer == answers[Len(answers)]

\* C11: the lister's result for a page response is OrganisationNotFound for 404,
\* Forbidden for 403, ServerError for a 5xx, UnknownError for any other non-2xx
\* status and for a transport or body-parse failure; only a 2xx response with a
\* parseable body lets the listing go on, so every answer before the latest was one.
C11_ListingStatusClasses ==
    /\ answers # <<>> =>
        IF LastAnswer.body = "transport_error" THEN listResult = "UnknownError"
        ELSE IF LastAnswer.status = 404 THEN listResult = "OrganisationNotFound"
        ELSE IF LastAnswer.status = 403 THEN listResult = "Forbidden"
        ELSE IF LastAnswer.status \in 500..599 THEN listResult = "ServerError"
        ELSE IF LastAnswer.status \notin 200..299 THEN listResult = "UnknownError"
        ELSE IF LastAnswer.body = "unparseable" THEN listResult = "UnknownError"
        ELSE /\ LastAnswer.body = "parsed"
             /\ listResult \in (IF LastAnswer.count = 0 THEN {"Ok"} ELSE {"none", "Ok"})
    /\ \A k \in 1..(Len(answers) - 1) :
        /\ answers[k].status \in 200..299
        /\ answers[k].body = "parsed"
        /\ answers[k].count > 0

\* C11's case: the second page is answered 503.
C11_Witness ==
    /\ Len(answers) = 2
    /\ LastAnswer.status = 503
    /\ listResult = "ServerError"

\* C12: the identity resolver issues one request per run and never a second; 403
\* gives Forbidden, a 5xx ServerError, any other non-2xx status (404 too) and a
\* transport or parse failure UnknownError, a 2xx with a parseable body success;
\* a failed attempt ends the run with a non-zero status and no further work.
C12_IdentityOnceAndClassified ==
    /\ userRequests <= 1
    /\ userRequests = 0 => userResult = "none"
    /\ userRequests = 1 =>
        IF userBody = "transport_error" THEN userResult = "UnknownError"
        ELSE IF userStatus = 403 THEN userResult = "Forbidden"
        ELSE IF userStatus \in 500..599 THEN userResult = "ServerError"
        ELSE IF userStatus \notin 200..299 THEN userResult = "UnknownError"
        ELSE IF userBody = "unparseable" THEN userResult = "UnknownError"
        ELSE userBody = "parsed" /\ userResult = "Ok"
    /\ userResult \notin {"none", "Ok"} =>
        /\ pc = "done"
        /\ exitCode = "FAILURE"
        /\ requests = 0
        /\ ~dirCreated
        /\ unit = <<>>

\* C12's case: the identity call was answered 404 and the run has failed.
C12_Witness ==
    /\ userRequests = 1
    /\ userStatus = 404
    /\ userResult = "UnknownError"
    /\ exitCode = "FAILURE"

\* C13: a unit that fetches a repository present from the start, and has ended,
\* has called the download of every remote registered on it, and has not
\* succeeded if one of them failed.
C13_EveryRemoteAttempted ==
    \A i \in Units :
        (unit[i] \in Terminal /\ "fetch" \in invoked[i] /\ TargetPath(i) \in fs0) =>
            /\ attempted[i] = [r \in 1..RemoteCount(i) |-> r]
            /\ (\E r \in 1..RemoteCount(i) : DownloadFails(i, r)) => unit[i] # "Succeeded"

\* C14: with --dry set no unit invokes the clone or the fetch step and the backup
\* directory holds what it held at the start.
C14_DryRunTransfersNothing ==
    dry => /\ \A i \in Units : invoked[i] = {}
           /\ fs = fs0

\* C15: the k-th request of the lister asks for page k; a page is requested only
\* when every page before it was answered with a non-empty success; and when the
\* listing fails no record of any page is returned: main has no repository list,
\* no unit, and has exited with a failure.
C15_PagesInOrderNoPartialResult ==
    /\ Len(answers) = requests
    /\ \A k \in 1..Len(answers) : answers[k].page = k
    /\ \A k \in 1..(Len(answers) - 1) :
        answers[k].body = "parsed" /\ answers[k].count > 0
    /\ listResult \notin {"none", "Ok"} =>
        /\ repos = <<>>
        /\ unit = <<>>
        /\ pc = "done"
        /\ exitCode = "FAILURE"

\* C15's case: the third page fails after two pages of records were received.
C15_Witness ==
    /\ Len(answers) = 3
    /\ answers[1].count > 0 /\ answers[2].count > 0
    /\ listResult = "Forbidden"
    /\ repos = <<>>

\* The steps of a unit; a task ended by a panic counts as failed.
UnitSteps ==
    {<<"Pending", "Dispatched">>, <<"Dispatched", "Cloning">>, <<"Dispatched", "Fetching">>}
    \cup ({"Cloning", "Fetching"} \X {"Succeeded", "Failed", "Panicked"})

\* C16: a unit starts Pending and moves only Pending -> Dispatched -> Cloning or
\* Fetching -> Succeeded or Failed: no other step is taken, a failed unit is not
\* started again, and a unit that has succeeded or failed keeps its state.
C16_UnitStateMachine ==
    [][/\ \A i \in DOMAIN unit' \ DOMAIN unit : unit'[i] = "Pending"
       /\ \A i \in DOMAIN unit :
            /\ i \in DOMAIN unit'
            /\ unit'[i] = unit[i] \/ <<unit[i], unit'[i]>> \in UnitSteps]_vars

\* C16's case: one unit has gone all the way and failed, another has succeeded.
C16_Witness ==
    \E i, j \in Units :
        /\ unit[i] \in {"Failed", "Panicked"}
        /\ unit[j] = "Succeeded"
        /\ invoked[i] # {} /\ invoked[j] # {}

\* C17: the listing returned by the lister gets one unit per record; the tasks are
\* spawned in listing order, each record once, none passed over; a unit takes its
\* branch at most once; and when main awaits the handles every record has its task.
C17_EachRecordOnceInListingOrder ==
    /\ listResult = "Ok" => DOMAIN unit = 1..Len(repos)
    /\ spawned = [k \in 1..Len(spawned) |-> k]
    /\ {i \in Units : unit[i] # "Pending"} = 1..Len(spawned)
    /\ \A i \in Units : Cardinality(invoked[i]) <= 1
    /\ (pc = "join" \/ (pc = "done" /\ dirCreated)) => Len(spawned) = Len(repos)

\* C17's case: a record later in the listing has finished while an earlier one,
\* spawned before it, has not.
C17_Witness ==
    \E i, j \in Units :
        /\ i < j
        /\ spawned = <<i, j>>
        /\ unit[j] \in Terminal
        /\ unit[i] \in {"Dispatched", "Cloning", "Fetching"}

\* C18: when the listing names no repository twice, no two units that are cloning
\* or fetching at the same time work in the same target path, so no unit's
\* existence check or transfer is disturbed by a sibling: what a unit saw is what
\* the backup directory held at the start, a unit fails only when its own transfer
\* does, and a path added to the directory is that of a unit that cloned it.
C18_OwnTargetPathOnly ==
    UniqueNames =>
        /\ \A i, j \in Transferring : i # j => TargetPath(i) # TargetPath(j)
        /\ \A i \in Units :
            /\ sawExists[i] = "exists" => TargetPath(i) \in fs0
            /\ sawExists[i] = "absent" => TargetPath(i) \notin fs0
            /\ unit[i] \in {"Failed", "Panicked"} => repos[i] \in failing
        /\ \A d \in fs \ fs0 :
            \E i \in Units : TargetPath(i) = d /\ invoked[i] = {"clone"} /\ unit[i] = "Succeeded"

\* C18's case: two units of distinct names transfer at the same time, one of them
\* cloning after its existence check.
C18_Witness ==
    /\ UniqueNames
    /\ \E i, j \in Transferring :
        /\ i # j
        /\ unit[i] = "Cloning"
        /\ sawExists[i] = "absent" /\ sawExists[j] \in {"exists", "absent"}

\* C19: main has returned only when every unit it dispatched is terminal (when
\* the backup directory could be created that is every unit of the listing), and
\* every run comes to its end: every dispatched unit becomes terminal and main
\* returns, with no repository as with more than the pool is wide.
C19_ReturnsAfterUnitsAndTerminates ==
    /\ [](pc = "done" =>
            \A i \in Units : unit[i] \in (IF dirCreated THEN Terminal ELSE {"Pending"}))
    /\ <>[](pc = "done" /\ \A i \in Units : unit[i] # "Dispatched" /\ i \notin Transferring)

\* C19's case: main has returned with success after PoolWidth + 1 units, of which
\* one succeeded, one failed and one panicked.
C19_Witness ==
    /\ pc = "done"
    /\ exitCode = "SUCCESS"
    /\ Len(unit) = PoolWidth + 1
    /\ \E i, j, k \in Units :
        unit[i] = "Succeeded" /\ unit[j] = "Failed" /\ unit[k] = "Panicked"

\* C20: when every request of the lister was answered with a non-empty page and
\* the lister has returned success, it made 999 requests and returned the records
\* of pages 1..999 in order, with an Ok that does not tell the list is cut short;
\* main goes on with that list: one unit per record, a failure exit only when the
\* backup directory cannot be created, and a task for every record when it awaits.
C20_CeilingTruncatesSilently ==
    (listResult = "Ok" /\ \A k \in 1..Len(answers) : answers[k].count > 0) =>
        /\ requests = 999
        /\ repos = Flatten([p \in 1..999 |-> PageItems(p)])
        /\ DOMAIN unit = 1..Len(repos)
        /\ pc \in {"mkdir", "spawn", "join", "done"}
        /\ exitCode = "FAILURE" => (pc = "done" /\ ~dirCreated /\ spawned = <<>>)
        /\ pc = "join" => Len(spawned) = Len(repos)

\* C20's case: an API that never serves an empty page, 999 requests made, and
\* main spawning the tasks of the 999 records it was given.
C20_Witness ==
    /\ api.after = "endless"
    /\ listResult = "Ok"
    /\ requests = 999
    /\ Len(repos) = 999
    /\ pc = "spawn"
    /\ spawned = <<1>>

====
